---- MODULE Spec2Model ----
(***************************************************************************)
(* Kite For Life (app_Version4_Version4.py): the Streamlit script that     *)
(* loads a grading table, reconciles its columns with the fixed rubric     *)
(* CRITERIOS, renders one of four views and keeps the evaluations          *)
(* submitted in the session.                                               *)
(*                                                                         *)
(* A str is a sequence of one-character strings.  The accented letters     *)
(* are written in ASCII: "C~" is C-cedilla, "c~" its lower case, "E'" is   *)
(* E-acute and "e'" its lower case.  A number is an integer count of       *)
(* hundredths (300 is 3.00), which is exact for the scores and for every   *)
(* value rounded to 2 decimals.                                            *)
(***************************************************************************)
EXTENDS Integers, Sequences, FiniteSets, TLC

VARIABLES
    uploaded_file,   \* what st.file_uploader holds
    local_file,      \* the file named DEFAULT_LOCAL in the working directory
    pc,              \* "start" before the first run of the script, then "idle"
    source,          \* which branch of lines 138-149 gave df
    normalized,      \* df.columns after line 153 in the last run
    renamed,         \* df.columns after line 154 in the last run
    df,              \* df after line 178 in the last run
    menu,            \* the sidebar selectbox
    session_state,   \* st.session_state
    view             \* the page the last run rendered

vars == <<uploaded_file, local_file, pc, source, normalized, renamed, df,
          menu, session_state, view>>

(***************************************************************************)
(* str helpers: the Python built-ins the script uses                       *)
(***************************************************************************)
Whitespace == {" ", "\t"}

LowerLetters == <<"a", "b", "c", "d", "e", "f", "g", "h", "i", "j", "k", "l", "m",
                  "n", "o", "p", "q", "r", "s", "t", "u", "v", "w", "x", "y", "z",
                  "c~", "e'">>

UpperLetters == <<"A", "B", "C", "D", "E", "F", "G", "H", "I", "J", "K", "L", "M",
                  "N", "O", "P", "Q", "R", "S", "T", "U", "V", "W", "X", "Y", "Z",
                  "C~", "E'">>

\* str.upper() on one character
UpperChar(c) ==
    IF \E i \in 1..Len(LowerLetters) : LowerLetters[i] = c
    THEN UpperLetters[CHOOSE i \in 1..Len(LowerLetters) : LowerLetters[i] = c]
    ELSE c

\* a sequence given by a rule, as the tuple of its elements
Eager(seq) == seq \o <<>>

\* str.upper()
Upper(s) == Eager([i \in 1..Len(s) |-> UpperChar(s[i])])

\* str.strip(): drop the leading and the trailing whitespace
RECURSIVE LStrip(_)
LStrip(s) == IF s # <<>> /\ Head(s) \in Whitespace THEN LStrip(Tail(s)) ELSE s

RECURSIVE RStrip(_)
RStrip(s) ==
    IF s # <<>> /\ s[Len(s)] \in Whitespace THEN RStrip(SubSeq(s, 1, Len(s) - 1)) ELSE s

Strip(s) == RStrip(LStrip(s))

\* str.split(): the maximal runs of non-whitespace characters, in order
RECURSIVE SplitFrom(_, _, _, _)
SplitFrom(s, i, cur, acc) ==
    IF i > Len(s)
    THEN IF cur = <<>> THEN acc ELSE Append(acc, cur)
    ELSE IF s[i] \in Whitespace
         THEN SplitFrom(s, i + 1, <<>>, IF cur = <<>> THEN acc ELSE Append(acc, cur))
         ELSE SplitFrom(s, i + 1, Append(cur, s[i]), acc)

Split(s) == SplitFrom(s, 1, <<>>, <<>>)

\* " ".join(words)
RECURSIVE Join(_)
Join(words) ==
    IF words = <<>> THEN <<>>
    ELSE IF Len(words) = 1 THEN words[1]
    ELSE words[1] \o <<" ">> \o Join(Tail(words))

\* str.replace(old, new) for a one-character old and new
Replace(s, old, new) == Eager([i \in 1..Len(s) |-> IF s[i] = old THEN new ELSE s[i]])

\* w in s: w occurs in s as a contiguous run
Contains(w, s) ==
    \E i \in 1..(Len(s) - Len(w) + 1) : \A j \in 1..Len(w) : s[i + j - 1] = w[j]

\* str.startswith
StartsWith(s, w) == Len(s) >= Len(w) /\ SubSeq(s, 1, Len(w)) = w

Range(f) == {f[x] : x \in DOMAIN f}

(***************************************************************************)
(* The rubric                                                              *)
(***************************************************************************)
CRITERIOS == <<
    <<"L", "I", "D", "E", "R", "A", "N", "C~", "A">>,
    <<"A", "S", "S", "I", "D", "U", "I", "D", "A", "D", "E">>,
    <<"F", "L", "E", "X", "I", "B", "I", "L", "I", "D", "A", "D", "E">>,
    <<"T", "E", "O", "R", "I", "A">>,
    <<"C", "O", "M", "A", "N", "D", "O">>,
    <<"C", "O", "N", "T", "R", "O", "L", "E">>,
    <<"B", "A", "D", "Y", "D", "R", "A", "G", " ", "E", "S", "Q", "/", "D", "I", "R">>,
    <<"W", "A", "T", "E", "R", " ", "S", "T", "A", "R", "T">>,
    <<"P", "R", "A", "N", "C", "H", "A", " ", "E", "S", "Q", "/", "D", "I", "R">>,
    <<"C", "O", "N", "T", "R", "A", " ", "V", "E", "N", "T", "O">> >>

NCrit == Len(CRITERIOS)

\* the labels the main flow tests for
ALUNO == <<"A", "L", "U", "N", "O">>
Aluno == <<"A", "l", "u", "n", "o">>
MEDIA_GERAL == <<"M", "E'", "D", "I", "A", " ", "G", "E", "R", "A", "L">>
Media_Geral == <<"M", "e'", "d", "i", "a", " ", "G", "e", "r", "a", "l">>
KwMEDIA == <<"M", "E", "D", "I", "A">>
KwMEDIA_acute == <<"M", "E'", "D", "I", "A">>
Unnamed == <<"U", "n", "n", "a", "m", "e", "d">>

(***************************************************************************)
(* A column label as a parser returns it: a str, or a value that is not a  *)
(* str (a number in a spreadsheet's header row)                            *)
(***************************************************************************)
StrLabel(s) == [isStr |-> TRUE, chars |-> s]
NonStrLabel(s) == [isStr |-> FALSE, chars |-> s]

\* normalize_colname
normalize_colname(name) ==
    IF ~name.isStr THEN <<>>
    ELSE Join(Split(Upper(Strip(name.chars))))

(***************************************************************************)
(* map_columns_to_criterios                                                *)
(***************************************************************************)
\* the keys of {c: ... for c in df.columns}: the labels, each once, in the
\* order of their first occurrence
DictKeys(columns) ==
    LET F[i \in 0..Len(columns)] ==
            IF i = 0 THEN <<>>
            ELSE IF \E j \in 1..(i - 1) : columns[j] = columns[i]
                 THEN F[i - 1]
                 ELSE Append(F[i - 1], columns[i])
    IN F[Len(columns)]

\* normalized_cols, as the sequence of its values in the order of its keys
normalized_cols(columns) ==
    LET keys == DictKeys(columns)
    IN Eager([i \in 1..Len(keys) |-> normalize_colname(StrLabel(keys[i]))])

\* inv_index, as the sequence of inv_index[norm] for norm in norms: the last
\* key whose normalized form is norm; norms[i] is the form of keys[i]
inv_index(keys, norms) ==
    Eager([i \in 1..Len(keys) |->
              keys[CHOOSE j \in 1..Len(keys) :
                      /\ norms[j] = norms[i]
                      /\ \A h \in 1..Len(keys) : norms[h] = norms[i] => h <= j]])

\* col_map[key] = value
Put(cm, key, value) ==
    [x \in DOMAIN cm \cup {key} |-> IF x = key THEN value ELSE cm[x]]

\* the first position (in dict order) that satisfies Hit, 0 when there is none
FirstKey(n, Hit(_)) ==
    LET hits == {i \in 1..n : Hit(i)}
    IN IF hits = {} THEN 0 ELSE CHOOSE i \in hits : \A j \in hits : i <= j

\* crit.split() and crit.replace("/", " ").split()[0], for each rubric field
CritWords == [k \in 1..NCrit |-> Range(Split(CRITERIOS[k]))]
CritFirstWord == [k \in 1..NCrit |-> Split(Replace(CRITERIOS[k], "/", " "))[1]]

\* the test of line 101 for the k-th rubric field: a word of crit, or its
\* first word once "/" is a separator, occurs in norm
WordMatch(norm, k) ==
    \/ \E w \in CritWords[k] : Contains(w, norm)
    \/ Contains(CritFirstWord[k], norm)

\* mutant: only the identifier keyword is tested at line 103
IsAlunoOrMedia_OnlyAluno(norm) == Contains(ALUNO, norm)

\* the test of line 103: the label is the identifier or the average
IsAlunoOrMedia(norm) ==
    \/ Contains(ALUNO, norm)
    \/ Contains(KwMEDIA, norm)
    \/ Contains(KwMEDIA_acute, norm)

\* mutant: the heuristic pass does not skip a rubric field that has a column
AlreadyMapped_Never(crit, cm) == FALSE

\* lines 94-95: the rubric field already has a column
AlreadyMapped(crit, cm) == crit \in Range(cm)

\* lines 98-99: the label is already a key of col_map
AlreadyUsed(label, cm) == label \in DOMAIN cm

\* 1) exact match, for the rubric fields from the k-th on; inv[i] is
\* inv_index[norms[i]]
RECURSIVE ExactPass(_, _, _, _)
ExactPass(norms, inv, k, cm) ==
    IF k > NCrit THEN cm
    ELSE LET hit == FirstKey(Len(norms), LAMBDA i : norms[i] = CRITERIOS[k])
         IN IF hit = 0
            THEN ExactPass(norms, inv, k + 1, cm)
            ELSE ExactPass(norms, inv, k + 1, Put(cm, inv[hit], CRITERIOS[k]))

\* 2) match by inclusion, for the rubric fields from the k-th on
RECURSIVE HeuristicPass(_, _, _, _)
HeuristicPass(norms, inv, k, cm) ==
    IF k > NCrit THEN cm
    ELSE IF AlreadyMapped(CRITERIOS[k], cm)
    THEN HeuristicPass(norms, inv, k + 1, cm)
    ELSE LET hit == FirstKey(Len(norms),
                        LAMBDA i : /\ ~AlreadyUsed(inv[i], cm)
                                   /\ WordMatch(norms[i], k)
                                   /\ ~IsAlunoOrMedia(norms[i]))
         IN IF hit = 0
            THEN HeuristicPass(norms, inv, k + 1, cm)
            ELSE HeuristicPass(norms, inv, k + 1, Put(cm, inv[hit], CRITERIOS[k]))

\* the col_map that map_columns_to_criterios builds
BuildColMap(columns) ==
    LET norms == normalized_cols(columns)
        inv   == inv_index(DictKeys(columns), norms)
    IN HeuristicPass(norms, inv, 1, ExactPass(norms, inv, 1, <<>>))

\* df.rename(columns=cm): every column whose label is a key takes the value
RenameColumns(columns, cm) ==
    Eager([i \in 1..Len(columns) |->
              IF columns[i] \in DOMAIN cm THEN cm[columns[i]] ELSE columns[i]])

map_columns_to_criterios(t) ==
    [t EXCEPT !.columns = RenameColumns(t.columns, BuildColMap(t.columns))]

(***************************************************************************)
(* Cells and tables.  A DataFrame is [ok, columns, data]: data is the      *)
(* sequence of rows and a row the sequence of its cells, one per column.   *)
(* ok = FALSE is None.                                                     *)
(***************************************************************************)
Num(n) == [kind |-> "num", n |-> n, s |-> ""]
Txt(s) == [kind |-> "str", n |-> 0, s |-> s]
NaN == [kind |-> "nan", n |-> 0, s |-> ""]

None == [ok |-> FALSE, columns |-> <<>>, data |-> <<>>]
DataFrame(columns, data) == [ok |-> TRUE, columns |-> columns, data |-> data]

NRows(t) == Len(t.data)

\* the positions of the columns labelled label
ColIdx(t, label) == {i \in 1..Len(t.columns) : t.columns[i] = label}

HasCol(t, label) == ColIdx(t, label) # {}

\* the positions (increasing) that satisfy Keep
KeptIdx(n, Keep(_)) == SelectSeq([i \in 1..n |-> i], Keep)

\* df.loc[:, mask]
SelectColumns(t, idx) ==
    [t EXCEPT !.columns = Eager([j \in 1..Len(idx) |-> t.columns[idx[j]]]),
              !.data = Eager([r \in 1..Len(t.data) |->
                            Eager([j \in 1..Len(idx) |-> t.data[r][idx[j]]])])]

\* df[label] = values, for a label the table does not have: a new last column
AppendColumn(t, label, values) ==
    [t EXCEPT !.columns = Append(t.columns, label),
              !.data = Eager([r \in 1..Len(t.data) |-> Append(t.data[r], values[r])])]

\* df.insert(0, label, values)
InsertFirstColumn(t, label, values) ==
    [t EXCEPT !.columns = <<label>> \o t.columns,
              !.data = Eager([r \in 1..Len(t.data) |-> <<values[r]>> \o t.data[r]])]

\* df.rename(columns={old: new})
RenameLabel(t, old, new) ==
    [t EXCEPT !.columns = Eager([i \in 1..Len(t.columns) |->
                               IF t.columns[i] = old THEN new ELSE t.columns[i]])]

(***************************************************************************)
(* Loading: try_read_table, the local default file, demo_dataframe.        *)
(* A file is [kind, columns, data]: kind "none" is no file (no upload, or  *)
(* no file of that name), "corrupt" a file on which pd.read_excel /        *)
(* pd.read_csv raises, "sheet" a file they parse (after the 11 skipped     *)
(* rows) into the header row columns and the rows data.                    *)
(***************************************************************************)
NoFile == [kind |-> "none", columns |-> <<>>, data |-> <<>>]
CorruptFile == [kind |-> "corrupt", columns |-> <<>>, data |-> <<>>]
Sheet(columns, data) == [kind |-> "sheet", columns |-> columns, data |-> data]

\* df.columns.str raises AttributeError when the labels are all numbers
\* (the Index is then numeric, not object)
StrAccessorRaises(columns) ==
    columns # <<>> /\ \A i \in 1..Len(columns) : ~columns[i].isStr

\* df.loc[:, ~df.columns.str.contains("^Unnamed", na=False)]
DropUnnamed(t) ==
    SelectColumns(t, KeptIdx(Len(t.columns),
        LAMBDA i : ~(t.columns[i].isStr /\ StartsWith(t.columns[i].chars, Unnamed))))

\* the body of the try: parse, then drop the 'Unnamed' columns
ReadAndFilter(file) ==
    IF file.kind # "sheet" \/ StrAccessorRaises(file.columns)
    THEN None
    ELSE DropUnnamed(DataFrame(file.columns, file.data))

try_read_table(uploaded) ==
    IF uploaded.kind = "none" THEN None ELSE ReadAndFilter(uploaded)

\* the mean of the numbers total/count, rounded to 2 decimals as numpy
\* rounds (half to even); total is in hundredths
Round2(total, count) ==
    LET q == total \div count
        r == total % count
    IN IF 2 * r < count THEN q
       ELSE IF 2 * r > count THEN q + 1
       ELSE IF q % 2 = 0 THEN q ELSE q + 1

RECURSIVE SumCells(_)
SumCells(cells) == IF cells = <<>> THEN 0 ELSE Head(cells).n + SumCells(Tail(cells))

\* the positions of df[CRITERIOS]: for each rubric field in order, every
\* column with that label
CriteriosIdx(t) ==
    LET F[k \in 0..NCrit] ==
            IF k = 0 THEN <<>>
            ELSE F[k - 1] \o KeptIdx(Len(t.columns), LAMBDA i : t.columns[i] = CRITERIOS[k])
    IN F[NCrit]

\* df[CRITERIOS], row by row
CriteriosCells(t) ==
    LET idx == CriteriosIdx(t)
    IN Eager([r \in 1..NRows(t) |-> Eager([j \in 1..Len(idx) |-> t.data[r][idx[j]]])])

\* mean over numbers, NaN skipped; NaN when there is none
MeanOf(cells) ==
    LET nums == SelectSeq(cells, LAMBDA c : c.kind = "num")
    IN IF nums = <<>> THEN NaN ELSE Num(Round2(SumCells(nums), Len(nums)))

\* a reduction over df[CRITERIOS] raises TypeError when a cell is a str
MeanRaises(t) ==
    LET cells == CriteriosCells(t)
    IN \E r \in 1..Len(cells) : \E j \in 1..Len(cells[r]) : cells[r][j].kind = "str"

\* df[CRITERIOS].mean(axis=1).round(2), one value per row
RowMeans(t) ==
    LET cells == CriteriosCells(t) IN Eager([r \in 1..Len(cells) |-> MeanOf(cells[r])])

DemoScores == << <<3, 4, 3, 2, 3, 2, 3, 2, 3, 2>>,
                 <<2, 3, 2, 1, 2, 2, 2, 1, 2, 1>>,
                 <<4, 4, 4, 3, 4, 3, 4, 3, 4, 3>> >>

DemoNames == <<"Beatriz Vitoria", "Ana Cecilia", "Francisco Neto">>

demo_dataframe ==
    LET base == DataFrame(<<Aluno>> \o CRITERIOS,
                    [r \in 1..Len(DemoNames) |->
                        <<Txt(DemoNames[r])>> \o [k \in 1..NCrit |-> Num(100 * DemoScores[r][k])]])
        full == AppendColumn(base, Media_Geral, RowMeans(base))
    IN [full EXCEPT !.columns = Eager([i \in 1..Len(full.columns) |-> StrLabel(full.columns[i])])]

\* lines 138-149: the upload, else the local default file, else the demo
\* mutant: the local default file is never tried
Load_SkipsLocal(uploaded, local) ==
    LET up == try_read_table(uploaded)
    IN IF up.ok THEN [source |-> "upload", table |-> up]
       ELSE [source |-> "demo", table |-> demo_dataframe]

Load(uploaded, local) ==
    LET up == try_read_table(uploaded)
        lo == ReadAndFilter(local)
    IN IF up.ok THEN [source |-> "upload", table |-> up]
       ELSE IF lo.ok THEN [source |-> "local", table |-> lo]
       ELSE [source |-> "demo", table |-> demo_dataframe]

(***************************************************************************)
(* Reconciliation: lines 153-178                                           *)
(***************************************************************************)
\* df.columns = [normalize_colname(c) for c in df.columns]
NormalizeColumns(t) ==
    [t EXCEPT !.columns = Eager([i \in 1..Len(t.columns) |-> normalize_colname(t.columns[i])])]

RECURSIVE EnsureFrom(_, _)
EnsureFrom(t, k) ==
    IF k > NCrit THEN t
    ELSE IF HasCol(t, CRITERIOS[k])
         THEN EnsureFrom(t, k + 1)
         ELSE EnsureFrom(AppendColumn(t, CRITERIOS[k], [r \in 1..NRows(t) |-> Num(0)]), k + 1)

\* mutant: "return df" inside the loop, after the first rubric field
ensure_criterios_columns_FirstOnly(t) ==
    IF HasCol(t, CRITERIOS[1]) THEN t
    ELSE AppendColumn(t, CRITERIOS[1], [r \in 1..NRows(t) |-> Num(0)])

ensure_criterios_columns(t) == EnsureFrom(t, 1)

\* lines 158-163
IdentifierStep(t) ==
    IF ~HasCol(t, ALUNO) /\ ~HasCol(t, Aluno)
    THEN InsertFirstColumn(t, Aluno, [r \in 1..NRows(t) |-> Txt("Aluno " \o ToString(r))])
    ELSE IF HasCol(t, ALUNO) /\ ~HasCol(t, Aluno)
         THEN RenameLabel(t, ALUNO, Aluno)
         ELSE t

\* lines 166-175
MediaStep(t) ==
    IF ~HasCol(t, Media_Geral) /\ ~HasCol(t, MEDIA_GERAL)
    THEN IF MeanRaises(t)
         THEN AppendColumn(t, Media_Geral, [r \in 1..NRows(t) |-> Num(0)])
         ELSE AppendColumn(t, Media_Geral, RowMeans(t))
    ELSE IF HasCol(t, MEDIA_GERAL) /\ ~HasCol(t, Media_Geral)
         THEN RenameLabel(t, MEDIA_GERAL, Media_Geral)
         ELSE t

\* str(x) of a cell of a column: the column is object when it holds a str,
\* else float64 when it holds a NaN, else int64
CellAsStr(c, column) ==
    IF c.kind = "str" THEN c
    ELSE IF c.kind = "nan" THEN Txt("nan")
    ELSE IF (\E i \in 1..Len(column) : column[i].kind = "nan")
             /\ ~(\E i \in 1..Len(column) : column[i].kind = "str")
         THEN Txt(ToString(c.n \div 100) \o ".0")
         ELSE Txt(ToString(c.n \div 100))

\* df["Aluno"] = df["Aluno"].astype(str)
AlunoAsStr(t) ==
    [t EXCEPT !.data = Eager([r \in 1..NRows(t) |->
        Eager([i \in 1..Len(t.columns) |->
            IF t.columns[i] = Aluno
            THEN CellAsStr(t.data[r][i], [q \in 1..NRows(t) |-> t.data[q][i]])
            ELSE t.data[r][i]])])]

\* lines 155-178, from the table line 154 leaves
Reconcile(mapped) ==
    AlunoAsStr(MediaStep(IdentifierStep(ensure_criterios_columns(mapped))))

(***************************************************************************)
(* The views (lines 188-265).  A view is what one run of the script left   *)
(* on the page: crashed is an uncaught exception.                          *)
(***************************************************************************)
PainelGeral == "Painel Geral"
FichaDoAluno == "Ficha do Aluno"
LancarNovasNotas == "Lancar Novas Notas"
ExportarAvaliacoes == "Exportar Avaliacoes"
Menus == {PainelGeral, FichaDoAluno, LancarNovasNotas, ExportarAvaliacoes}

NoneCell == [kind |-> "none", n |-> 0, s |-> ""]

\* the cells of the column(s) labelled label, row by row
ColumnCells(t, label) ==
    LET idx == KeptIdx(Len(t.columns), LAMBDA i : t.columns[i] = label)
    IN Eager([r \in 1..NRows(t) |-> Eager([j \in 1..Len(idx) |-> t.data[r][idx[j]]])])

\* some column labelled label holds a str
HasStrIn(t, label) ==
    LET cells == ColumnCells(t, label)
    IN \E r \in 1..Len(cells) : \E j \in 1..Len(cells[r]) : cells[r][j].kind = "str"

\* float(df["Media Geral"].mean()): the mean of the one column
media_escola(t) ==
    LET cells == ColumnCells(t, Media_Geral)
    IN MeanOf(Eager([r \in 1..Len(cells) |-> cells[r][1]]))

\* st.selectbox(..., df["Aluno"].unique()): the first option, None without options
DefaultAluno(t) == IF NRows(t) = 0 THEN NoneCell ELSE ColumnCells(t, Aluno)[1][1]

BlankView(page) ==
    [page |-> page, crashed |-> FALSE, media |-> NoneCell, total |-> 0,
     export |-> <<>>, download |-> <<>>]

\* the exceptions of the "Painel Geral" branch: the mean of a column with a
\* str (TypeError), float() of the means of two columns (TypeError)
PainelCrashes(t) ==
    \/ Cardinality(ColIdx(t, Media_Geral)) > 1
    \/ HasStrIn(t, Media_Geral)
    \/ MeanRaises(t)

\* the exceptions of the "Ficha do Aluno" branch: .iloc[0] of no rows
\* (IndexError), float() of a str or of the cells of two columns, the mean
\* of a column with a str
FichaCrashes(t) ==
    \/ Cardinality(ColIdx(t, Aluno)) > 1
    \/ NRows(t) = 0
    \/ \E k \in 1..NCrit : Cardinality(ColIdx(t, CRITERIOS[k])) > 1
    \/ MeanRaises(t)
    \/ Cardinality(ColIdx(t, Media_Geral)) > 1
    \/ ColumnCells(t, Media_Geral)[1][1].kind = "str"

\* one row of csv text: the identifier, the ten scores, the notes
CsvRow(entrada) ==
    <<(IF entrada.Aluno.kind = "none" THEN "" ELSE entrada.Aluno.s)>>
    \o Eager([k \in 1..NCrit |-> ToString(entrada.notas[k])])
    \o <<entrada.Observacoes>>

\* pd.DataFrame(avaliacoes).to_csv(index=False): one row per entry, in order
to_csv(entries) == Eager([i \in 1..Len(entries) |-> CsvRow(entries[i])])

\* the page one run of the script renders; entries is session_state.avaliacoes
\* as the run leaves it, submitted the entry of this run (<<>> when the form
\* was not submitted)
Render(page, t, entries, submitted) ==
    IF page = PainelGeral
    THEN IF PainelCrashes(t)
         THEN [BlankView(page) EXCEPT !.crashed = TRUE]
         ELSE [BlankView(page) EXCEPT !.media = media_escola(t), !.total = NRows(t)]
    ELSE IF page = FichaDoAluno
    THEN [BlankView(page) EXCEPT !.crashed = FichaCrashes(t)]
    ELSE IF page = LancarNovasNotas
    THEN IF submitted = <<>>
         THEN [BlankView(page) EXCEPT !.crashed = Cardinality(ColIdx(t, Aluno)) > 1]
         ELSE IF submitted[1].Aluno.kind = "none"
              THEN [BlankView(page) EXCEPT !.crashed = TRUE]
              ELSE [BlankView(page) EXCEPT !.download = <<CsvRow(submitted[1])>>]
    ELSE IF entries = <<>> THEN BlankView(page)
         ELSE [BlankView(page) EXCEPT !.export = to_csv(entries)]

(***************************************************************************)
(* st.session_state: a dict that has the key "avaliacoes" or not           *)
(***************************************************************************)
EmptySessionState == [has_avaliacoes |-> FALSE, avaliacoes |-> <<>>]

\* mutant: the list is set to [] in every run
InitAvaliacoes_AlwaysResets(ss) == [has_avaliacoes |-> TRUE, avaliacoes |-> <<>>]

\* lines 184-185
InitAvaliacoes(ss) ==
    IF ~ss.has_avaliacoes THEN [has_avaliacoes |-> TRUE, avaliacoes |-> <<>>] ELSE ss

\* line 240
AppendAvaliacao(ss, entrada) == [ss EXCEPT !.avaliacoes = Append(ss.avaliacoes, entrada)]

\* line 239
Entrada(nome, notas, coment) == [Aluno |-> nome, notas |-> notas, Observacoes |-> coment]

(***************************************************************************)
(* Bounds and inputs                                                       *)
(***************************************************************************)
MaxHeaders == 3   \* columns of a file of the header pool
MaxCells == 4     \* cells of a file of the cell pool
MaxEvals == 2     \* evaluations submitted in one session

Nome == StrLabel(<<"N", "o", "m", "e">>)
LIDERANCA == StrLabel(<<"L", "I", "D", "E", "R", "A", "N", "C", "A">>)
ASSIDUIDADE_sp == StrLabel(<<"A", "S", "S", "I", "D", "U", "I", "D", "A", "D", "E", " ">>)
teoria == StrLabel(<<"t", "e", "o", "r", "i", "a">>)
TEORIA_sp == StrLabel(<<"T", "E", "O", "R", "I", "A", " ">>)
Nota_Teoria == StrLabel(<<"N", "o", "t", "a", " ", "T", "e", "o", "r", "i", "a">>)
PRANCHA_ESQ_DIR == StrLabel(CRITERIOS[9])
ESQ_DIR == StrLabel(<<"E", "S", "Q", "/", "D", "I", "R">>)
Aluno_Teoria == StrLabel(<<"A", "l", "u", "n", "o", " ", "T", "e", "o", "r", "i", "a">>)
Media_Comando == StrLabel(<<"M", "e", "d", "i", "a", " ", "C", "o", "m", "a", "n", "d", "o">>)
Media_acute_Teoria == StrLabel(<<"M", "e'", "d", "i", "a", " ", "T", "e", "o", "r", "i", "a">>)
Label2025 == NonStrLabel(<<"2", "0", "2", "5">>)
comando == StrLabel(<<"c", "o", "m", "a", "n", "d", "o">>)
Unnamed_1 == StrLabel(<<"U", "n", "n", "a", "m", "e", "d", ":", " ", "1">>)

\* header rows: every order of up to MaxHeaders different labels of HeaderPool
HeaderPool == {Nome, LIDERANCA, ASSIDUIDADE_sp, teoria, TEORIA_sp, Nota_Teoria,
               PRANCHA_ESQ_DIR, ESQ_DIR, Aluno_Teoria, Media_Comando,
               Media_acute_Teoria, Label2025}

HeaderRows ==
    {h \in UNION {[1..n -> HeaderPool] : n \in 1..MaxHeaders} :
        \A i, j \in 1..Len(h) : i # j => h[i] # h[j]}

\* a file of the header pool: one row, the cell of column i the number i
HeaderFiles == {Sheet(h, << [i \in 1..Len(h) |-> Num(100 * i)] >>) : h \in HeaderRows}

\* a file of the cell pool: some of these labels in this order, as many rows
\* as MaxCells allows, any cell of CellPool in any place
CellLabels == <<StrLabel(Aluno), Nota_Teoria, comando, StrLabel(Media_Geral)>>

CellPool == {Num(300), Txt("x"), NaN}

CellHeaderRows ==
    {[j \in 1..Len(idx) |-> CellLabels[idx[j]]] :
        idx \in {KeptIdx(Len(CellLabels), LAMBDA i : i \in S) :
                    S \in (SUBSET (1..Len(CellLabels))) \ {{}}}}

CellFiles ==
    UNION {UNION {{Sheet(h, d) : d \in [1..n -> [1..Len(h) -> CellPool]]}
                     : n \in 0..(MaxCells \div Len(h))}
              : h \in CellHeaderRows}

\* a sheet with an 'Unnamed' column, and the local default file when there is one
SheetWithUnnamed == Sheet(<<Unnamed_1, teoria>>, << <<NaN, Num(400)>>, <<NaN, Num(200)>> >>)
LocalSheet == Sheet(<<StrLabel(Aluno), comando>>, << <<Txt("Rui"), Num(500)>> >>)

\* uploads for which the local default file is varied too
FewUploads == {NoFile, CorruptFile, Sheet(<<Label2025>>, << <<Num(100)>> >>),
               SheetWithUnnamed}

LocalFiles == {NoFile, CorruptFile, LocalSheet}

\* the files of a session
SessionFiles == {CorruptFile,
                 Sheet(<<StrLabel(Aluno), teoria>>, <<>>),
                 Sheet(<<StrLabel(Aluno), teoria>>, << <<Txt("Ana"), Num(400)>>, <<Txt("Rui"), Txt("x")>> >>)}

TypedNames == {"", "Zeca"}
\* the sliders: all at their default 3, or the last moved to 5
NotasPool == {[k \in 1..NCrit |-> 3],
              [k \in 1..NCrit |-> IF k = NCrit THEN 5 ELSE 3]}
Comments == {"ok"}

(***************************************************************************)
(* One run of the script, top to bottom                                    *)
(***************************************************************************)
\* submitted is <<>> or <<[typed, notas, coment]>>: the form of this run
ScriptRun(uploaded, page, submitted) ==
    LET loaded == Load(uploaded, local_file)
        normal == NormalizeColumns(loaded.table)
        mapped == map_columns_to_criterios(normal)
        t  == Reconcile(mapped)
        ss == InitAvaliacoes(session_state)
        entrada == IF submitted = <<>> THEN <<>>
                   ELSE <<Entrada(IF submitted[1].typed # "" THEN Txt(submitted[1].typed)
                                  ELSE DefaultAluno(t),
                                  submitted[1].notas, submitted[1].coment)>>
        ss2 == IF entrada = <<>> THEN ss ELSE AppendAvaliacao(ss, entrada[1])
    IN /\ uploaded_file' = uploaded
       /\ menu' = page
       /\ source' = loaded.source
       /\ normalized' = normal.columns
       /\ renamed' = mapped.columns
       /\ df' = t
       /\ session_state' = ss2
       /\ view' = Render(page, t, ss2.avaliacoes, entrada)
       /\ pc' = "idle"
       /\ UNCHANGED local_file

\* the first run of a session
FirstRun ==
    /\ pc = "start"
    /\ ScriptRun(uploaded_file, menu, <<>>)

\* the user picks a page
SelectMenu ==
    /\ pc = "idle"
    /\ \E m \in Menus \ {menu} : ScriptRun(uploaded_file, m, <<>>)

\* the user uploads a file, or removes the upload
Upload ==
    /\ pc = "idle"
    /\ \E f \in (SessionFiles \cup {NoFile}) \ {uploaded_file} : ScriptRun(f, menu, <<>>)

\* the user presses "Guardar Avaliacao"
Submit ==
    /\ pc = "idle"
    /\ menu = LancarNovasNotas
    /\ Len(session_state.avaliacoes) < MaxEvals
    /\ \E typed \in TypedNames, notas \in NotasPool, coment \in Comments :
          ScriptRun(uploaded_file, menu,
                    <<[typed |-> typed, notas |-> notas, coment |-> coment]>>)

\* the user reruns the script
Rerun ==
    /\ pc = "idle"
    /\ ScriptRun(uploaded_file, menu, <<>>)

Blank ==
    /\ pc = "start"
    /\ source = ""
    /\ normalized = <<>>
    /\ renamed = <<>>
    /\ df = None
    /\ menu = PainelGeral
    /\ session_state = EmptySessionState
    /\ view = BlankView("")

\* a session: it starts with no upload
Init ==
    /\ uploaded_file = NoFile
    /\ local_file = NoFile
    /\ Blank

Next == FirstRun \/ SelectMenu \/ Upload \/ Submit \/ Rerun

Spec == Init /\ [][Next]_vars

\* the run of the script on each file the uploader may hold
InitLoad ==
    /\ \/ uploaded_file \in HeaderFiles \cup CellFiles /\ local_file = NoFile
       \/ uploaded_file \in FewUploads /\ local_file \in LocalFiles
       \/ uploaded_file = LocalSheet /\ local_file = SheetWithUnnamed
    /\ Blank

NextLoad == FirstRun

SpecLoad == InitLoad /\ [][NextLoad]_vars

(***************************************************************************)
(* Properties                                                              *)
(***************************************************************************)
Ran == pc = "idle"

\* the cells of row r under the rubric labels, and its cell under 'Media Geral'
RubricCells(r) == CriteriosCells(df)[r]
MediaCell(r) == ColumnCells(df, Media_Geral)[r][1]

\* the source had a column whose canonical name is the aggregate's
MediaSupplied == \E i \in 1..Len(normalized) : normalized[i] = MEDIA_GERAL

\* C1: after a run of the script, df has a column for each of the ten rubric
\* fields and a column 'Aluno' whose cell is a text in every row, and a
\* rubric field that no source column was renamed to holds 0 in every row.
C1_ReconciledShape ==
    Ran =>
        /\ \A k \in 1..NCrit : HasCol(df, CRITERIOS[k])
        /\ HasCol(df, Aluno)
        /\ \A r \in 1..NRows(df) : \A i \in ColIdx(df, Aluno) : df.data[r][i].kind = "str"
        /\ \A k \in 1..NCrit :
              CRITERIOS[k] \notin Range(renamed) =>
                  \A r \in 1..NRows(df) : \A i \in ColIdx(df, CRITERIOS[k]) :
                      df.data[r][i] = Num(0)

\* C1's case: an uploaded table with a blank identifier cell, which the run
\* turned into the text "nan", with a rubric field from the source and one
\* filled in.
C1_Witness ==
    /\ Ran
    /\ source = "upload"
    /\ \E i \in 1..Len(uploaded_file.columns) : \E r \in 1..Len(uploaded_file.data) :
          /\ uploaded_file.columns[i] = StrLabel(Aluno)
          /\ uploaded_file.data[r][i] = NaN
          /\ \E j \in ColIdx(df, Aluno) : df.data[r][j] = Txt("nan")
    /\ \E k \in 1..NCrit : CRITERIOS[k] \in Range(renamed)
    /\ \E k \in 1..NCrit : CRITERIOS[k] \notin Range(renamed)

\* C2 (as claimed): after a run, every cell under a rubric label is numeric
\* (a number, or the float NaN of a blank cell).
C2_RubricCellsNumeric ==
    Ran => \A r \in 1..NRows(df) : \A j \in 1..Len(RubricCells(r)) :
               RubricCells(r)[j].kind \in {"num", "nan"}

\* C3: when the canonical form of some header equals a rubric field, every
\* such header bears that field after map_columns_to_criterios (so none is
\* renamed to another field), and no other header is renamed to that field.
C3_ExactBeatsHeuristic ==
    Ran => \A k \in 1..NCrit :
               (\E i \in 1..Len(normalized) : normalized[i] = CRITERIOS[k]) =>
                   /\ \A i \in 1..Len(normalized) :
                         normalized[i] = CRITERIOS[k] => renamed[i] = CRITERIOS[k]
                   /\ \A i \in 1..Len(renamed) :
                         renamed[i] = CRITERIOS[k] => normalized[i] = CRITERIOS[k]

\* C3's case: a header that only qualifies heuristically for a field comes
\* before the header that matches the field exactly, and keeps its label.
C3_Witness ==
    /\ Ran
    /\ \E k \in 1..NCrit : \E i, j \in 1..Len(normalized) :
          /\ i < j
          /\ normalized[j] = CRITERIOS[k]
          /\ normalized[i] # CRITERIOS[k]
          /\ WordMatch(normalized[i], k)
          /\ ~IsAlunoOrMedia(normalized[i])
          /\ renamed[j] = CRITERIOS[k]
          /\ renamed[i] = normalized[i]

\* C4 (as claimed): after the renaming no rubric field labels two columns.
C4_OneColumnPerField ==
    Ran => \A k \in 1..NCrit :
               Cardinality({i \in 1..Len(renamed) : renamed[i] = CRITERIOS[k]}) <= 1

\* C5 (as claimed): without an aggregate column in the source, the
\* aggregate of each row whose rubric cells are ten numbers is their mean
\* rounded to 2 decimals; with one, the column keeps the source's values.
C5_AggregateIsMeanOfTen ==
    Ran =>
        IF MediaSupplied
        THEN source = "upload" =>
                \A i \in 1..Len(uploaded_file.columns) :
                    normalize_colname(uploaded_file.columns[i]) = MEDIA_GERAL =>
                        \A r \in 1..NRows(df) : MediaCell(r) = uploaded_file.data[r][i]
        ELSE \A r \in 1..NRows(df) :
                (/\ Len(RubricCells(r)) = NCrit
                 /\ \A j \in 1..NCrit : RubricCells(r)[j].kind = "num")
                => MediaCell(r) = Num(Round2(SumCells(RubricCells(r)), NCrit))

\* C6 (as claimed): when the mean fails on a text in a rubric cell, only the
\* rows with such a cell get the aggregate 0; every other row keeps the
\* rounded mean of its rubric cells.
C6_DefaultForAffectedRowOnly ==
    (Ran /\ ~MediaSupplied /\ MeanRaises(df)) =>
        \A r \in 1..NRows(df) :
            IF \E j \in 1..Len(RubricCells(r)) : RubricCells(r)[j].kind = "str"
            THEN MediaCell(r) = Num(0)
            ELSE MediaCell(r) = MeanOf(RubricCells(r))

\* a file the loader gets a table from: it parses, and its labels are not
\* all numbers
Usable(file) ==
    /\ file.kind = "sheet"
    /\ \/ file.columns = <<>>
       \/ \E i \in 1..Len(file.columns) : file.columns[i].isStr

\* C7: every run ends with a table; it comes from the upload when that is
\* usable, else from the local default file when that is usable, else it is
\* the demo, and then df has 3 rows and every rubric column its sample score.
C7_LoadFallsBack ==
    Ran =>
        /\ df.ok
        /\ source = (IF Usable(uploaded_file) THEN "upload"
                     ELSE IF Usable(local_file) THEN "local" ELSE "demo")
        /\ source = "demo" =>
              /\ NRows(df) = 3
              /\ \A k \in 1..NCrit : \A i \in ColIdx(df, CRITERIOS[k]) : \A r \in 1..3 :
                    df.data[r][i] = Num(100 * DemoScores[r][k])
              /\ \A k \in 1..NCrit : Cardinality(ColIdx(df, CRITERIOS[k])) = 1

\* C7's case: the upload is unreadable and so is the local default file,
\* and the run shows the demo.
C7_Witness ==
    /\ Ran
    /\ uploaded_file.kind = "corrupt"
    /\ local_file.kind = "corrupt"
    /\ source = "demo"
    /\ NRows(df) = 3

\* C8 (as claimed): for the headers "Nome", "LIDERANCA", "ASSIDUIDADE ", the
\* second column is renamed to the first rubric field and the third bears
\* the second rubric field.
C8_LiderancaMapped ==
    (Ran /\ Len(uploaded_file.columns) >= 3
         /\ SubSeq(uploaded_file.columns, 1, 3) = <<Nome, LIDERANCA, ASSIDUIDADE_sp>>)
    => /\ renamed[2] = CRITERIOS[1]
       /\ renamed[3] = CRITERIOS[2]

\* C9: a step either leaves the evaluations as they are or is a submission,
\* which appends one entry made of the form's values; and the export page
\* holds one row per entry, in the order of the list, with the entry's values.
C9_Step ==
    \/ session_state'.avaliacoes = session_state.avaliacoes
    \/ /\ menu = LancarNovasNotas
       /\ \E typed \in TypedNames, notas \in NotasPool, coment \in Comments :
             \E e \in {Entrada(IF typed # "" THEN Txt(typed) ELSE DefaultAluno(df'),
                              notas, coment)} :
                session_state'.avaliacoes = Append(session_state.avaliacoes, e)

C9_ExportMatches ==
    (Ran /\ view.page = ExportarAvaliacoes) =>
        /\ Len(view.export) = Len(session_state.avaliacoes)
        /\ \A i \in 1..Len(view.export) :
              LET e == session_state.avaliacoes[i]
              IN /\ Len(view.export[i]) = NCrit + 2
                 /\ view.export[i][1] = (IF e.Aluno.kind = "none" THEN "" ELSE e.Aluno.s)
                 /\ \A k \in 1..NCrit : view.export[i][k + 1] = ToString(e.notas[k])
                 /\ view.export[i][NCrit + 2] = e.Observacoes

C9_AppendOnly ==
    /\ [][C9_Step /\ (Submit => Len(session_state'.avaliacoes) = Len(session_state.avaliacoes) + 1)]_vars
    /\ []C9_ExportMatches

\* C9's case: two different evaluations were submitted, the user went to
\* the export page, and it lists both in that order.
C9_Witness ==
    /\ Ran
    /\ view.page = ExportarAvaliacoes
    /\ Len(session_state.avaliacoes) = 2
    /\ session_state.avaliacoes[1] # session_state.avaliacoes[2]
    /\ Len(view.export) = 2
    /\ view.export[1] # view.export[2]

\* C10 (as claimed): with an upload that has a header row and no data row,
\* df has no rows, the school average on "Painel Geral" is 0, and no page
\* crashes.
C10_ZeroRowsNoCrash ==
    (Ran /\ uploaded_file.kind = "sheet" /\ uploaded_file.data = <<>>) =>
        /\ NRows(df) = 0
        /\ ~view.crashed
        /\ view.page = PainelGeral => view.media = Num(0)

\* the canonical form holds the identifier keyword or the average keyword
HasKeyword(norm) ==
    \/ \E p \in 1..(Len(norm) - 4) : SubSeq(norm, p, p + 4) = ALUNO
    \/ \E p \in 1..(Len(norm) - 4) : SubSeq(norm, p, p + 4) = KwMEDIA
    \/ \E p \in 1..(Len(norm) - 4) : SubSeq(norm, p, p + 4) = KwMEDIA_acute

\* C11: map_columns_to_criterios keeps every column, and a header whose
\* canonical form holds 'ALUNO', 'MEDIA' or 'ME'DIA' (E acute) is renamed to
\* no rubric field: it has after the mapping the label it had before.
C11_KeywordHeadersKeepLabel ==
    Ran =>
        /\ Len(renamed) = Len(normalized)
        /\ \A i \in 1..Len(normalized) :
              HasKeyword(normalized[i]) =>
                  /\ renamed[i] = normalized[i]
                  /\ \A k \in 1..NCrit : renamed[i] # CRITERIOS[k]

\* C11's case: a header with the average keyword and a token of a rubric
\* field that no other header took, so that only the keyword test kept it
\* from the field; it has its own label after the mapping.
C11_Witness ==
    /\ Ran
    /\ source = "upload"
    /\ \E i \in 1..Len(normalized) : \E k \in 1..NCrit :
          /\ HasKeyword(normalized[i])
          /\ ~Contains(ALUNO, normalized[i])
          /\ WordMatch(normalized[i], k)
          /\ CRITERIOS[k] \notin Range(renamed)
          /\ renamed[i] = normalized[i]

====
